---- MODULE Spec2Model ----
(***************************************************************************)
(* Model of src/src/App.tsx: the ShortestPathVisualizer component.         *)
(*                                                                         *)
(* The component's state is the React state of lines 19-27 plus the        *)
(* closure of the one asynchronous handler, visualizePath, while it is     *)
(* suspended on a timer.  Cell objects are shared and mutated in place by  *)
(* the handlers; the model keeps the cell types of the array held in the   *)
(* `grid` state (grid) and of the array captured by the running            *)
(* visualizePath (closureGrid).  Only the coordinates of the start and end *)
(* objects are ever read, so start and end are coordinates.                *)
(***************************************************************************)
EXTENDS Integers, Sequences, FiniteSets, TLC

\* The grids of the model.  The component clamps rows to 5..30 and columns
\* to 5..40 (lines 255, 267); the model scales the ranges down to 1..MaxRows
\* and 1..MaxCols and keeps the grids of at most MaxCells cells.
MaxRows ==
  2

MaxCols ==
  4

MaxCells ==
  4

\* The grid of the engine specification: every layout of walls on an
\* EngineRows x EngineCols grid.
EngineRows ==
  2

EngineCols ==
  3

\* the dimensions the Rows and Columns inputs can produce
Dimensions ==
  {d \in (1 .. MaxRows) \X (1 .. MaxCols) : d[1] * d[2] <= MaxCells}

\* the dimensions of the first grid (useState(15), useState(25), lines 19-20)
InitialDimensions ==
  <<MaxRows, MaxCells \div MaxRows>>

VARIABLES rows, cols, grid, start, end, mode, isRunning, algorithm, message,
          pc, result, cursor, closureGrid

vars ==
  <<rows, cols, grid, start, end, mode, isRunning, algorithm, message,
    pc, result, cursor, closureGrid>>

\* type CellType (line 4)
CellType ==
  {"empty", "start", "end", "wall", "path", "visited"}

\* the null of `Cell | null` (lines 22-23)
NoCell ==
  <<-1, -1>>

\* the coordinates of an R x C grid (lines 31-37)
Cells(R, C) ==
  (0 .. R - 1) \X (0 .. C - 1)

\* the grid built by initializeGrid (lines 30-37)
EmptyGrid(R, C) ==
  [c \in Cells(R, C) |-> "empty"]

\* the values of `message` (lines 27, 159, 197, 199)
NoMessage ==
  [kind |-> "none", steps |-> 0]

MissingMessage ==
  [kind |-> "missing", steps |-> 0]

FoundMessage(p) ==
  [kind |-> "found", steps |-> Len(p) - 1]

NoPathMessage ==
  [kind |-> "nopath", steps |-> 0]

\* no visualizePath is suspended: its locals do not exist
NoResult ==
  [path |-> <<>>, visited |-> <<>>, found |-> FALSE]

NoGrid ==
  EmptyGrid(0, 0)

----------------------------------------------------------------------------
\* Traversal engine (lines 79-155)

\* const directions (lines 85-87, 124-126)
directions ==
  << <<0, 1>>, <<1, 0>>, <<0, -1>>, <<-1, 0>> >>

\* Mutant of expand: the column is tested against the number of rows.
RECURSIVE expand_RowsForCols(_, _, _, _, _, _, _)
expand_RowsForCols(g, R, C, cell, path, k, st) ==
  IF k > Len(directions) THEN st
  ELSE LET newRow == cell[1] + directions[k][1]
           newCol == cell[2] + directions[k][2]
           key == <<newRow, newCol>>
           ok == /\ newRow >= 0 /\ newRow < R
                 /\ newCol >= 0 /\ newCol < R
                 /\ key \notin st.visited
                 /\ g[key] # "wall"
       IN expand_RowsForCols(g, R, C, cell, path, k + 1,
                 IF ok
                 THEN [frontier |-> Append(st.frontier,
                                     [cell |-> key, path |-> Append(path, key)]),
                       visited |-> st.visited \cup {key},
                       visitedCells |-> Append(st.visitedCells, key)]
                 ELSE st)

\* the for loop over directions (lines 96-112, 135-151), from direction k on.
\* st = [frontier, visited, visitedCells]; a neighbour that passes the test
\* is marked, appended to visitedCells and pushed at the back of the frontier.
RECURSIVE expand(_, _, _, _, _, _, _)
expand(g, R, C, cell, path, k, st) ==
  IF k > Len(directions) THEN st
  ELSE LET newRow == cell[1] + directions[k][1]
           newCol == cell[2] + directions[k][2]
           key == <<newRow, newCol>>
           ok == /\ newRow >= 0 /\ newRow < R
                 /\ newCol >= 0 /\ newCol < C
                 /\ key \notin st.visited
                 /\ g[key] # "wall"
       IN expand(g, R, C, cell, path, k + 1,
                 IF ok
                 THEN [frontier |-> Append(st.frontier,
                                     [cell |-> key, path |-> Append(path, key)]),
                       visited |-> st.visited \cup {key},
                       visitedCells |-> Append(st.visitedCells, key)]
                 ELSE st)

\* Mutant of searchInit: the start coordinate is not marked visited (lines
\* 83 and 122 left out).
searchInit_StartUnmarked(startCell) ==
  [frontier |-> << [cell |-> startCell, path |-> <<startCell>>] >>,
   visited |-> {},
   visitedCells |-> <<>>]

\* the state before the while loop (lines 80-83, 119-122)
searchInit(startCell) ==
  [frontier |-> << [cell |-> startCell, path |-> <<startCell>>] >>,
   visited |-> {startCell},
   visitedCells |-> <<>>]

\* the while loop of bfs (lines 89-115): queue.shift() takes the front
RECURSIVE bfsLoop(_, _, _, _, _)
bfsLoop(g, R, C, endCell, st) ==
  IF st.frontier = <<>>
  THEN [path |-> <<>>, visited |-> st.visitedCells, found |-> FALSE]
  ELSE LET item == Head(st.frontier)
           rest == [st EXCEPT !.frontier = Tail(st.frontier)]
       IN IF item.cell = endCell
          THEN [path |-> item.path, visited |-> st.visitedCells, found |-> TRUE]
          ELSE bfsLoop(g, R, C, endCell,
                       expand(g, R, C, item.cell, item.path, 1, rest))

bfs(g, R, C, startCell, endCell) ==
  bfsLoop(g, R, C, endCell, searchInit(startCell))

\* the while loop of dfs (lines 128-154): stack.pop() takes the back
RECURSIVE dfsLoop(_, _, _, _, _)
dfsLoop(g, R, C, endCell, st) ==
  IF st.frontier = <<>>
  THEN [path |-> <<>>, visited |-> st.visitedCells, found |-> FALSE]
  ELSE LET n == Len(st.frontier)
           item == st.frontier[n]
           rest == [st EXCEPT !.frontier = SubSeq(st.frontier, 1, n - 1)]
       IN IF item.cell = endCell
          THEN [path |-> item.path, visited |-> st.visitedCells, found |-> TRUE]
          ELSE dfsLoop(g, R, C, endCell,
                       expand(g, R, C, item.cell, item.path, 1, rest))

dfs(g, R, C, startCell, endCell) ==
  dfsLoop(g, R, C, endCell, searchInit(startCell))

----------------------------------------------------------------------------
\* Initial state: useState defaults (lines 19-27) after the mount effect
\* (lines 44-46) has run initializeGrid.
Init ==
  /\ rows = InitialDimensions[1]
  /\ cols = InitialDimensions[2]
  /\ grid = EmptyGrid(InitialDimensions[1], InitialDimensions[2])
  /\ start = NoCell
  /\ end = NoCell
  /\ mode = "start"
  /\ isRunning = FALSE
  /\ algorithm = "bfs"
  /\ message = NoMessage
  /\ pc = "idle"
  /\ result = NoResult
  /\ cursor = 0
  /\ closureGrid = NoGrid

\* the locals of visualizePath are untouched by every other handler
closureUnchanged ==
  UNCHANGED <<pc, result, cursor, closureGrid>>

----------------------------------------------------------------------------
\* Edit/mode state machine

\* Mutant of applyClick: the previous start and end cells are not cleared
\* (lines 55-57 and 63-65 left out).
applyClick_KeepsPrevious(s, cell) ==
  IF s.mode = "start"
  THEN IF s.grid[cell] = "end"
       THEN s
       ELSE [grid |-> [s.grid EXCEPT ![cell] = "start"],
             start |-> cell, end |-> s.end,
             mode |-> "end", message |-> NoMessage]
  ELSE IF s.mode = "end"
  THEN IF s.grid[cell] = "start"
       THEN s
       ELSE [grid |-> [s.grid EXCEPT ![cell] = "end"],
             start |-> s.start, end |-> cell,
             mode |-> "wall", message |-> NoMessage]
  ELSE IF s.grid[cell] \in {"start", "end"}
       THEN s
       ELSE [s EXCEPT !.grid[cell] = IF s.grid[cell] = "wall"
                                     THEN "empty" ELSE "wall",
                      !.message = NoMessage]

\* Mutant of applyClick: placing an end leaves the mode as it is (line 69
\* left out).
applyClick_NoAdvance(s, cell) ==
  IF s.mode = "start"
  THEN LET g1 == IF s.start # NoCell
                 THEN [s.grid EXCEPT ![s.start] = "empty"]
                 ELSE s.grid
       IN IF g1[cell] = "end"
          THEN [s EXCEPT !.grid = g1]
          ELSE [grid |-> [g1 EXCEPT ![cell] = "start"],
                start |-> cell, end |-> s.end,
                mode |-> "end", message |-> NoMessage]
  ELSE IF s.mode = "end"
  THEN LET g1 == IF s.end # NoCell
                 THEN [s.grid EXCEPT ![s.end] = "empty"]
                 ELSE s.grid
       IN IF g1[cell] = "start"
          THEN [s EXCEPT !.grid = g1]
          ELSE [grid |-> [g1 EXCEPT ![cell] = "end"],
                start |-> s.start, end |-> cell,
                mode |-> s.mode, message |-> NoMessage]
  ELSE IF s.grid[cell] \in {"start", "end"}
       THEN s
       ELSE [s EXCEPT !.grid[cell] = IF s.grid[cell] = "wall"
                                     THEN "empty" ELSE "wall",
                      !.message = NoMessage]

\* Mutant of applyClick: in editing-walls mode the start and end cells are
\* toggled like any other cell (line 71 left out).
applyClick_WallsOverEndpoints(s, cell) ==
  IF s.mode = "start"
  THEN LET g1 == IF s.start # NoCell
                 THEN [s.grid EXCEPT ![s.start] = "empty"]
                 ELSE s.grid
       IN IF g1[cell] = "end"
          THEN [s EXCEPT !.grid = g1]
          ELSE [grid |-> [g1 EXCEPT ![cell] = "start"],
                start |-> cell, end |-> s.end,
                mode |-> "end", message |-> NoMessage]
  ELSE IF s.mode = "end"
  THEN LET g1 == IF s.end # NoCell
                 THEN [s.grid EXCEPT ![s.end] = "empty"]
                 ELSE s.grid
       IN IF g1[cell] = "start"
          THEN [s EXCEPT !.grid = g1]
          ELSE [grid |-> [g1 EXCEPT ![cell] = "end"],
                start |-> s.start, end |-> cell,
                mode |-> "wall", message |-> NoMessage]
  ELSE [s EXCEPT !.grid[cell] = IF s.grid[cell] = "wall"
                                THEN "empty" ELSE "wall",
                 !.message = NoMessage]

\* handleCellClick (lines 48-77) as a function of the state it reads,
\* s = [grid, start, end, mode, message], for a click that is not rejected.
\* The cell objects are mutated in place, so the clearing of the previous
\* endpoint (lines 55-57, 63-65) stays in the grid when the handler returns
\* early at line 58 or 66.
applyClick(s, cell) ==
  IF s.mode = "start"
  THEN LET g1 == IF s.start # NoCell
                 THEN [s.grid EXCEPT ![s.start] = "empty"]
                 ELSE s.grid
       IN IF g1[cell] = "end"
          THEN [s EXCEPT !.grid = g1]
          ELSE [grid |-> [g1 EXCEPT ![cell] = "start"],
                start |-> cell, end |-> s.end,
                mode |-> "end", message |-> NoMessage]
  ELSE IF s.mode = "end"
  THEN LET g1 == IF s.end # NoCell
                 THEN [s.grid EXCEPT ![s.end] = "empty"]
                 ELSE s.grid
       IN IF g1[cell] = "start"
          THEN [s EXCEPT !.grid = g1]
          ELSE [grid |-> [g1 EXCEPT ![cell] = "end"],
                start |-> s.start, end |-> cell,
                mode |-> "wall", message |-> NoMessage]
  ELSE IF s.grid[cell] \in {"start", "end"}
       THEN s
       ELSE [s EXCEPT !.grid[cell] = IF s.grid[cell] = "wall"
                                     THEN "empty" ELSE "wall",
                      !.message = NoMessage]

\* the state handleCellClick reads and writes
editState ==
  [grid |-> grid, start |-> start, end |-> end, mode |-> mode,
   message |-> message]

\* Mutant of handleCellClick: the click is not rejected while running
\* (line 49 left out).
handleCellClick_NoGuard(cell) ==
  /\ LET t == applyClick(editState, cell)
     IN /\ grid' = t.grid
        /\ start' = t.start
        /\ end' = t.end
        /\ mode' = t.mode
        /\ message' = t.message
  /\ UNCHANGED <<rows, cols, isRunning, algorithm>>
  /\ closureUnchanged

\* onClick of a grid cell (lines 48-49, 371)
handleCellClick(cell) ==
  /\ ~isRunning
  /\ LET t == applyClick(editState, cell)
     IN /\ grid' = t.grid
        /\ start' = t.start
        /\ end' = t.end
        /\ mode' = t.mode
        /\ message' = t.message
  /\ UNCHANGED <<rows, cols, isRunning, algorithm>>
  /\ closureUnchanged

\* the Mode select (lines 286-289), disabled while running
setMode(m) ==
  /\ ~isRunning
  /\ m # mode
  /\ mode' = m
  /\ UNCHANGED <<rows, cols, grid, start, end, isRunning, algorithm, message>>
  /\ closureUnchanged

\* the Algorithm select (lines 274-277), disabled while running
setAlgorithm(a) ==
  /\ ~isRunning
  /\ a # algorithm
  /\ algorithm' = a
  /\ UNCHANGED <<rows, cols, grid, start, end, mode, isRunning, message>>
  /\ closureUnchanged

\* initializeGrid (lines 29-42) from the Reset Grid button (lines 324-327)
initializeGrid ==
  /\ ~isRunning
  /\ grid' = EmptyGrid(rows, cols)
  /\ start' = NoCell
  /\ end' = NoCell
  /\ message' = NoMessage
  /\ UNCHANGED <<rows, cols, mode, isRunning, algorithm>>
  /\ closureUnchanged

\* the Rows and Columns inputs (lines 250-257, 262-269): a new value rebuilds
\* initializeGrid and the effect of lines 44-46 runs it
setDimensions(R, C) ==
  /\ ~isRunning
  /\ (R # rows /\ C = cols) \/ (R = rows /\ C # cols)
  /\ rows' = R
  /\ cols' = C
  /\ grid' = EmptyGrid(R, C)
  /\ start' = NoCell
  /\ end' = NoCell
  /\ message' = NoMessage
  /\ UNCHANGED <<mode, isRunning, algorithm>>
  /\ closureUnchanged

\* Mutant of withoutOverlay: the map resets every cell that is not a wall.
withoutOverlay_AlsoEndpoints(g) ==
  [c \in DOMAIN g |-> IF g[c] # "wall" THEN "empty" ELSE g[c]]

\* the map of lines 167-172 and 206-211
withoutOverlay(g) ==
  [c \in DOMAIN g |-> IF g[c] \in {"path", "visited"} THEN "empty" ELSE g[c]]

\* the map of lines 217-222
withoutWalls(g) ==
  [c \in DOMAIN g |-> IF g[c] = "wall" THEN "empty" ELSE g[c]]

\* clearPath (lines 205-214) from its button (lines 308-311)
clearPath ==
  /\ ~isRunning
  /\ grid' = withoutOverlay(grid)
  /\ message' = NoMessage
  /\ UNCHANGED <<rows, cols, start, end, mode, isRunning, algorithm>>
  /\ closureUnchanged

\* clearWalls (lines 216-225) from its button (lines 316-319)
clearWalls ==
  /\ ~isRunning
  /\ grid' = withoutWalls(grid)
  /\ message' = NoMessage
  /\ UNCHANGED <<rows, cols, start, end, mode, isRunning, algorithm>>
  /\ closureUnchanged

----------------------------------------------------------------------------
\* Playback: visualizePath (lines 157-203).  The handler runs to its first
\* await in one step; each timer wake-up runs it to the next await or to its
\* end.  pc is the loop it is suspended in, cursor the index i of that loop
\* (counted from 1 here, from 0 in the source).

\* line 175
runTraversal(g, R, C, alg, s, e) ==
  IF alg = "bfs" THEN bfs(g, R, C, s, e) ELSE dfs(g, R, C, s, e)

\* the loop bounds of lines 178 and 190: the first index of the path loop is
\* the second entry, its last the entry before the last
hasVisitedSteps(res) ==
  Len(res.visited) > 0

hasPathSteps(res) ==
  res.found /\ 2 <= Len(res.path) - 1

\* Mutant of firstPathIndex: the path loop starts at the first entry.
firstPathIndex_FromFirst ==
  2 - 1

firstPathIndex ==
  2

\* Mutant of complete: the running flag is not cleared (line 202 left out).
complete_KeepsRunning(res) ==
  /\ message' = IF res.found THEN FoundMessage(res.path) ELSE NoPathMessage
  /\ isRunning' = TRUE
  /\ pc' = "idle"
  /\ result' = NoResult
  /\ cursor' = 0
  /\ closureGrid' = NoGrid

\* lines 188-202: no step is left, the handler ends
complete(res) ==
  /\ message' = IF res.found THEN FoundMessage(res.path) ELSE NoPathMessage
  /\ isRunning' = FALSE
  /\ pc' = "idle"
  /\ result' = NoResult
  /\ cursor' = 0
  /\ closureGrid' = NoGrid

\* the handler suspends at the await of line 179 or 191
suspend(loop, i, res, cg) ==
  /\ pc' = loop
  /\ cursor' = i
  /\ result' = res
  /\ closureGrid' = cg
  /\ isRunning' = TRUE
  /\ message' = NoMessage

\* Mutant of visualizePath: the test of lines 158-161 is left out.
visualizePath_NoEndpointTest ==
  LET res == runTraversal(grid, rows, cols, algorithm, start, end)
  IN /\ grid' = withoutOverlay(grid)
     /\ UNCHANGED <<rows, cols, start, end, mode, algorithm>>
     /\ IF hasVisitedSteps(res) THEN suspend("visited", 1, res, grid)
        ELSE IF hasPathSteps(res)
             THEN suspend("path", firstPathIndex, res, grid)
             ELSE complete(res)

\* the body of visualizePath up to its first await (lines 158-179)
visualizePath ==
  IF start = NoCell \/ end = NoCell
  THEN /\ message' = MissingMessage
       /\ UNCHANGED <<rows, cols, grid, start, end, mode, isRunning, algorithm>>
       /\ closureUnchanged
  ELSE LET res == runTraversal(grid, rows, cols, algorithm, start, end)
       IN /\ grid' = withoutOverlay(grid)
          /\ UNCHANGED <<rows, cols, start, end, mode, algorithm>>
          /\ IF hasVisitedSteps(res) THEN suspend("visited", 1, res, grid)
             ELSE IF hasPathSteps(res)
                  THEN suspend("path", firstPathIndex, res, grid)
                  ELSE complete(res)

\* the Visualize Path button (lines 300-303)
clickVisualize ==
  /\ ~(isRunning \/ start = NoCell \/ end = NoCell)
  /\ visualizePath

\* Mutant of visitedStep: the test of line 181 is left out.
visitedStep_Unconditional ==
  /\ pc = "visited"
  /\ LET cell == result.visited[cursor]
         cg == [closureGrid EXCEPT ![cell] = "visited"]
     IN /\ grid' = cg
        /\ IF cursor < Len(result.visited)
           THEN suspend("visited", cursor + 1, result, cg)
           ELSE IF hasPathSteps(result)
                THEN suspend("path", firstPathIndex, result, cg)
                ELSE complete(result)
  /\ UNCHANGED <<rows, cols, start, end, mode, algorithm>>

\* one iteration of the visited loop (lines 180-185) and what follows it up
\* to the next await
visitedStep ==
  /\ pc = "visited"
  /\ LET cell == result.visited[cursor]
         painted == closureGrid[cell] = "empty"
         cg == IF painted THEN [closureGrid EXCEPT ![cell] = "visited"]
               ELSE closureGrid
     IN /\ grid' = IF painted THEN cg ELSE grid
        /\ IF cursor < Len(result.visited)
           THEN suspend("visited", cursor + 1, result, cg)
           ELSE IF hasPathSteps(result)
                THEN suspend("path", firstPathIndex, result, cg)
                ELSE complete(result)
  /\ UNCHANGED <<rows, cols, start, end, mode, algorithm>>

\* one iteration of the path loop (lines 192-195) and what follows it
pathStep ==
  /\ pc = "path"
  /\ LET cell == result.path[cursor]
         cg == [closureGrid EXCEPT ![cell] = "path"]
     IN /\ grid' = cg
        /\ IF cursor < Len(result.path) - 1
           THEN suspend("path", cursor + 1, result, cg)
           ELSE complete(result)
  /\ UNCHANGED <<rows, cols, start, end, mode, algorithm>>

----------------------------------------------------------------------------
Next ==
  \/ \E cell \in Cells(rows, cols) : handleCellClick(cell)
  \/ \E m \in {"start", "end", "wall"} : setMode(m)
  \/ \E a \in {"bfs", "dfs"} : setAlgorithm(a)
  \/ \E d \in Dimensions : setDimensions(d[1], d[2])
  \/ initializeGrid
  \/ clearPath
  \/ clearWalls
  \/ clickVisualize
  \/ visitedStep
  \/ pathStep

Spec ==
  Init /\ [][Next]_vars

\* The timers of lines 179 and 191 always fire: a suspended replay is
\* eventually resumed.
FairSpec ==
  Spec /\ WF_vars(visitedStep) /\ WF_vars(pathStep)

\* The traversal engine alone: bfs and dfs applied to every layout of walls
\* and every start and end of the engine grid.  The engine only tells wall
\* from not wall, so the other cells are empty.
EngineInit ==
  /\ rows = EngineRows
  /\ cols = EngineCols
  /\ grid \in [Cells(EngineRows, EngineCols) -> {"empty", "wall"}]
  /\ start \in Cells(EngineRows, EngineCols)
  /\ end \in Cells(EngineRows, EngineCols)
  /\ mode = "wall"
  /\ isRunning = FALSE
  /\ algorithm = "bfs"
  /\ message = NoMessage
  /\ pc = "idle"
  /\ result = NoResult
  /\ cursor = 0
  /\ closureGrid = NoGrid

\* a call of the engine that has returned its result
engineCall(alg) ==
  /\ pc = "idle"
  /\ algorithm' = alg
  /\ result' = runTraversal(grid, rows, cols, alg, start, end)
  /\ pc' = "returned"
  /\ UNCHANGED <<rows, cols, grid, start, end, mode, isRunning, message,
                 cursor, closureGrid>>

\* bfs(start, end) (lines 79-116)
callBfs ==
  engineCall("bfs")

\* dfs(start, end) (lines 118-155)
callDfs ==
  engineCall("dfs")

EngineNext ==
  \/ callBfs
  \/ callDfs

EngineSpec ==
  EngineInit /\ [][EngineNext]_vars

\* visualizePath called whatever the endpoints are: the handler tests them
\* itself (lines 158-161), while the rendered button is disabled without
\* both (line 302), so that only a direct call reaches the test.
requestRun ==
  /\ ~isRunning
  /\ visualizePath

HandlerNext ==
  \/ Next
  \/ requestRun

\* the component with its handler visualizePath callable directly
HandlerSpec ==
  Init /\ [][HandlerNext]_vars

TypeOK ==
  /\ <<rows, cols>> \in Dimensions
  /\ grid \in [Cells(rows, cols) -> CellType]
  /\ start \in Cells(rows, cols) \cup {NoCell}
  /\ end \in Cells(rows, cols) \cup {NoCell}
  /\ mode \in {"start", "end", "wall"}
  /\ isRunning \in BOOLEAN
  /\ algorithm \in {"bfs", "dfs"}
  /\ pc \in {"idle", "visited", "path"}
  /\ isRunning <=> pc # "idle"

----------------------------------------------------------------------------
\* Properties

\* the cells of the live grid tagged t
tagged(g, t) ==
  {c \in DOMAIN g : g[c] = t}

\* a click on `cell`, in a state where clicks are accepted, that the claim
\* of C4 is about: the cell is the other endpoint of the mode
otherEndpointClick(cell) ==
  \/ mode = "start" /\ grid[cell] = "end"
  \/ mode = "end" /\ grid[cell] = "start"

\* C4 (as claimed): a click in placing-start mode on the cell tagged end, and
\* a click in placing-end mode on the cell tagged start, changes neither the
\* type of any grid cell, nor the mode, nor the start and end references.
C4_OtherEndpointClickIsNoOp ==
  [][\A cell \in Cells(rows, cols) :
       (handleCellClick(cell) /\ otherEndpointClick(cell))
         => UNCHANGED <<grid, mode, start, end>>]_vars

\* C9: in every reachable state at most one grid cell has type start and at
\* most one has type end.
C9_AtMostOneStartAndEnd ==
  /\ Cardinality(tagged(grid, "start")) <= 1
  /\ Cardinality(tagged(grid, "end")) <= 1

\* C9 witness: a start was placed a second time, on another cell, after a
\* replay painted the grid; one start and one end cell are tagged.
C9_Witness ==
  /\ Cardinality(tagged(grid, "start")) = 1
  /\ Cardinality(tagged(grid, "end")) = 1
  /\ tagged(grid, "path") # {}
  /\ tagged(grid, "visited") # {}
  /\ mode = "end"
  /\ pc = "idle"

\* a grid that initializeGrid built and no click has touched, in the
\* initial mode
freshGrid ==
  /\ ~isRunning
  /\ grid = EmptyGrid(rows, cols)
  /\ start = NoCell
  /\ end = NoCell
  /\ mode = "start"

\* C10: a click that places a start advances the mode to placing-end, a
\* click that places an end advances it to editing-walls, and no click in
\* editing-walls mode changes the mode; three clicks on three distinct cells
\* of a fresh grid drive the mode start -> end -> wall and leave exactly one
\* cell tagged start and exactly one tagged end.
C10_ModeMachine ==
  /\ [][\A cell \in Cells(rows, cols) :
          handleCellClick(cell) =>
            /\ (mode = "start" /\ grid'[cell] = "start") => mode' = "end"
            /\ (mode = "end" /\ grid'[cell] = "end") => mode' = "wall"
            /\ mode = "wall" => mode' = "wall"]_vars
  /\ [](freshGrid =>
          \A a, b, c \in Cells(rows, cols) :
            (a # b /\ b # c /\ a # c) =>
              LET s1 == applyClick(editState, a)
                  s2 == applyClick(s1, b)
                  s3 == applyClick(s2, c)
              IN /\ s1.mode = "end"
                 /\ s2.mode = "wall"
                 /\ s3.mode = "wall"
                 /\ tagged(s3.grid, "start") = {a}
                 /\ tagged(s3.grid, "end") = {b})

\* C10 witness: the state three clicks on distinct cells of a fresh grid
\* lead to.
C10_Witness ==
  /\ mode = "wall"
  /\ Cardinality(tagged(grid, "start")) = 1
  /\ Cardinality(tagged(grid, "end")) = 1
  /\ Cardinality(tagged(grid, "wall")) = 1
  /\ Cardinality(tagged(grid, "empty")) = Cardinality(DOMAIN grid) - 3
  /\ Cardinality(DOMAIN grid) >= 3
  /\ grid[start] = "start"
  /\ grid[end] = "end"
  /\ ~isRunning

\* C5: while a replay is active every step is the replay's own (a visited
\* step or a path step): no click, clear, reset, resize, mode change or new
\* run changes the grid, the start and end references, the mode or the
\* dimensions, and the traversal result being replayed stays the same one
\* until the replay completes.
C5_RunningRejectsUserActions ==
  [][isRunning =>
       /\ visitedStep \/ pathStep
       /\ UNCHANGED <<rows, cols, start, end, mode>>
       /\ isRunning' => result' = result]_vars

\* C5 witness: a replay is suspended after it has painted a cell.
C5_Witness ==
  /\ isRunning
  /\ cursor > 1
  /\ tagged(grid, "visited") # {}

\* the entries of sequence q at the indices from..to
entries(q, from, to) ==
  {q[j] : j \in from .. to}

\* C7, state part: the replay is suspended at an entry of result.visited,
\* or, only when result.found, at an entry of result.path that is neither
\* the first nor the last.
replayCursorInRange ==
  /\ pc = "visited" => cursor \in 1 .. Len(result.visited)
  /\ pc = "path" => /\ result.found
                    /\ cursor \in 2 .. Len(result.path) - 1

\* C7, step part: a wake-up processes the entry at the cursor and nothing
\* else (it paints at most that cell), then moves to the next visited entry,
\* or after the last visited entry to the second path entry, or after the
\* last step completes (message set, running flag cleared).
replayStepInOrder ==
  LET V == Len(result.visited)
      P == Len(result.path)
      pathSteps == result.found /\ P > 2
      completes == /\ ~isRunning'
                   /\ pc' = "idle"
                   /\ message' = IF result.found
                                 THEN [kind |-> "found", steps |-> P - 1]
                                 ELSE [kind |-> "nopath", steps |-> 0]
      continues(loop, i) == /\ isRunning'
                            /\ pc' = loop
                            /\ cursor' = i
                            /\ result' = result
                            /\ message' = message
  IN /\ pc = "visited" =>
          /\ \/ grid' = grid
             \/ grid' = [closureGrid EXCEPT ![result.visited[cursor]] = "visited"]
          /\ IF cursor < V THEN continues("visited", cursor + 1)
             ELSE IF pathSteps THEN continues("path", 2)
             ELSE completes
     /\ pc = "path" =>
          /\ grid' = [closureGrid EXCEPT ![result.path[cursor]] = "path"]
          /\ IF cursor < P - 1 THEN continues("path", cursor + 1)
             ELSE completes

\* C7: replay steps are strictly ordered: one visited step per entry of
\* result.visited in discovery order; path steps only if result.found, only
\* after every visited step, one per entry of result.path except the first
\* and the last, from start to end; completion only after the last step.
C7_ReplayStepsOrdered ==
  /\ [](replayCursorInRange)
  /\ [][isRunning => replayStepInOrder]_vars

\* C7 witness: a replay with several visited steps is at the last of several
\* path steps.
C7_Witness ==
  /\ pc = "path"
  /\ cursor > 2
  /\ cursor = Len(result.path) - 1
  /\ Len(result.visited) > 2
  /\ tagged(grid, "path") # {}

\* C6 (as claimed): a run with both endpoints clears every path and visited
\* tag of the live grid before any replay step, so that while the replay is
\* active every visited or path tag of the live grid is one this replay
\* painted (an entry it has already processed).
C6_ReplayStartsFromCleanOverlay ==
  [][/\ (~isRunning /\ clickVisualize) =>
          (tagged(grid', "visited") = {} /\ tagged(grid', "path") = {})
     /\ isRunning =>
          /\ tagged(grid', "visited") \subseteq
               entries(result.visited, 1,
                       IF pc = "visited" THEN cursor ELSE Len(result.visited))
          /\ tagged(grid', "path") \subseteq
               IF pc = "path" THEN entries(result.path, 2, cursor) ELSE {}]_vars

\* C8 (as claimed): during a replay no visited step and no path step changes
\* the type of the cell at the start coordinate or at the end coordinate.
C8_EndpointsNeverRepainted ==
  [][isRunning => (grid'[start] = grid[start] /\ grid'[end] = grid[end])]_vars

----------------------------------------------------------------------------
\* The engine claims, stated of the result visualizePath replays (result)
\* and of the grid it passed to the engine (closureGrid).

\* orthogonally adjacent: Manhattan distance exactly 1
adjacent(a, b) ==
  LET dr == IF a[1] >= b[1] THEN a[1] - b[1] ELSE b[1] - a[1]
      dc == IF a[2] >= b[2] THEN a[2] - b[2] ELSE b[2] - a[2]
  IN dr + dc = 1

\* the cells joined to s by a wall-free path of at most k edges (every cell
\* of the path, s included, is not a wall)
RECURSIVE reachWithin(_, _, _)
reachWithin(g, s, k) ==
  IF k = 0
  THEN IF g[s] # "wall" THEN {s} ELSE {}
  ELSE LET near == reachWithin(g, s, k - 1)
       IN near \cup {c \in DOMAIN g :
                       g[c] # "wall" /\ \E d \in near : adjacent(c, d)}

Unreachable ==
  0 - 1

\* the distance from s to e in the 4-neighbour grid graph with the wall
\* cells removed, Unreachable when no wall-free path joins them
trueDistance(g, s, e) ==
  LET n == Cardinality(DOMAIN g)
  IN IF e \notin reachWithin(g, s, n)
     THEN Unreachable
     ELSE CHOOSE k \in 0 .. n :
            /\ e \in reachWithin(g, s, k)
            /\ \A j \in 0 .. k - 1 : e \notin reachWithin(g, s, j)

\* C1 (as claimed): whenever breadthFirstSearch returns found, the edge
\* count of its path is the distance from start to end in the grid graph
\* with the wall cells removed.
C1_BfsPathIsShortest ==
  (isRunning /\ algorithm = "bfs" /\ result.found)
    => Len(result.path) - 1 = trueDistance(closureGrid, start, end)

\* C2 (as claimed): whenever either search returns found, the path begins
\* at start, ends at end, its consecutive cells are orthogonally adjacent
\* and none of its cells is a wall.
C2_PathIsSound ==
  (isRunning /\ result.found) =>
    LET p == result.path
    IN /\ Len(p) >= 1
       /\ p[1] = start
       /\ p[Len(p)] = end
       /\ \A j \in 1 .. Len(p) - 1 : adjacent(p[j], p[j + 1])
       /\ \A j \in 1 .. Len(p) : closureGrid[p[j]] # "wall"

\* C3 (as claimed): if no wall-free orthogonal path joins start and end,
\* either search returns found = false and an empty path.
C3_NoPathIsReported ==
  (isRunning /\ trueDistance(closureGrid, start, end) = Unreachable)
    => (~result.found /\ result.path = <<>>)

----------------------------------------------------------------------------
\* C11: in editing-walls mode an accepted click on a cell of type start or
\* end changes nothing; a click on any other cell sets it to empty if it was
\* a wall and to wall otherwise; no other cell, the mode and the start and
\* end references are not changed.
C11_WallModeClick ==
  [][\A cell \in Cells(rows, cols) :
       (handleCellClick(cell) /\ mode = "wall") =>
         /\ UNCHANGED <<mode, start, end>>
         /\ grid' = IF grid[cell] \in {"start", "end"}
                    THEN grid
                    ELSE [grid EXCEPT ![cell] = IF grid[cell] = "wall"
                                                THEN "empty" ELSE "wall"]]_vars

\* C11 witness: in editing-walls mode, with both endpoints tagged, a cell a
\* replay had painted has been turned into a wall next to cells still painted.
C11_Witness ==
  /\ mode = "wall"
  /\ ~isRunning
  /\ start # NoCell /\ grid[start] = "start"
  /\ end # NoCell /\ grid[end] = "end"
  /\ tagged(grid, "wall") # {}
  /\ tagged(grid, "path") # {}

\* C12: clearPath and clearWalls are idempotent and framed.  clearPath sets
\* the path and visited cells to empty and leaves every other cell as it is,
\* and a second clearPath changes nothing; clearWalls sets the wall cells to
\* empty and leaves every other cell as it is, and a second clearWalls
\* changes nothing; neither changes the mode or the start and end references.
C12_ClearsIdempotentAndFramed ==
  /\ [][clearPath =>
          /\ \A c \in DOMAIN grid :
               grid'[c] = IF grid[c] \in {"path", "visited"}
                          THEN "empty" ELSE grid[c]
          /\ withoutOverlay(grid') = grid'
          /\ UNCHANGED <<mode, start, end>>]_vars
  /\ [][clearWalls =>
          /\ \A c \in DOMAIN grid :
               grid'[c] = IF grid[c] = "wall" THEN "empty" ELSE grid[c]
          /\ withoutWalls(grid') = grid'
          /\ UNCHANGED <<mode, start, end>>]_vars

\* C12 witness: an idle grid with both endpoints tagged, a wall and a cell a
\* replay painted, on which both clears have something to clear.
C12_Witness ==
  /\ ~isRunning
  /\ tagged(grid, "start") # {}
  /\ tagged(grid, "end") # {}
  /\ tagged(grid, "wall") # {}
  /\ tagged(grid, "path") \cup tagged(grid, "visited") # {}

----------------------------------------------------------------------------
\* C13: a run requested while the start or the end reference is not set
\* attempts no run: no traversal result is replayed, the running flag is
\* not set, no cell type changes, and the missing-endpoints message is
\* surfaced; the running flag is never set without both endpoints.
C13_MissingEndpointsNoRun ==
  /\ [][(requestRun /\ (start = NoCell \/ end = NoCell)) =>
          /\ message' = [kind |-> "missing", steps |-> 0]
          /\ ~isRunning'
          /\ pc' = "idle"
          /\ result' = NoResult
          /\ UNCHANGED <<grid, start, end, mode>>]_vars
  /\ [](isRunning => (start # NoCell /\ end # NoCell))

\* C13 witness: the missing-endpoints message is shown on a grid whose
\* start is placed and whose end is not.
C13_Witness ==
  /\ message.kind = "missing"
  /\ start # NoCell
  /\ end = NoCell
  /\ ~isRunning

----------------------------------------------------------------------------
\* the message a finished run surfaces for result res: success with the edge
\* count of the path, or the distinct no-path message
completionMessage(res) ==
  IF res.found
  THEN [kind |-> "found", steps |-> Len(res.path) - 1]
  ELSE [kind |-> "nopath", steps |-> 0]

\* C14: every replay terminates.  The running flag is set only by a run
\* with both endpoints, is true exactly while the replay is suspended on one
\* of its steps, and once set is eventually cleared; the step that clears it
\* (and a run that has no step at all) surfaces the completion message:
\* success with path.length - 1, or no path.
C14_ReplayTerminates ==
  /\ isRunning ~> ~isRunning
  /\ [](isRunning <=> pc # "idle")
  /\ [][(~isRunning /\ isRunning') => clickVisualize]_vars
  /\ [][(isRunning /\ ~isRunning') =>
          /\ visitedStep \/ pathStep
          /\ message' = completionMessage(result)]_vars
  /\ [][(~isRunning /\ clickVisualize /\ ~isRunning') =>
          message' = completionMessage(
                       runTraversal(grid, rows, cols, algorithm, start, end))]_vars

\* C14 witness: a replay that found a path of several edges has completed
\* and reports them.
C14_Witness ==
  /\ ~isRunning
  /\ message.kind = "found"
  /\ message.steps >= 2
  /\ tagged(grid, "path") # {}

----------------------------------------------------------------------------
\* C15: for both searches and every input the visited list holds only
\* coordinates of the grid whose cell is not a wall, never the start
\* coordinate, and no coordinate twice.  (The searches read g[key] only
\* after the bounds test; a read outside the grid, or a loop that does not
\* end, would stop the evaluation of bfs and dfs.)
C15_VisitedListWellFormed ==
  pc = "returned" =>
    LET v == result.visited
    IN /\ \A j \in 1 .. Len(v) :
            /\ v[j] \in Cells(rows, cols)
            /\ grid[v[j]] # "wall"
            /\ v[j] # start
       /\ \A j, k \in 1 .. Len(v) : j # k => v[j] # v[k]
       /\ Len(v) <= Cardinality(Cells(rows, cols)) - 1

\* C15 witness: a search has returned after discovering every other cell of
\* a grid that has walls.
C15_Witness ==
  /\ pc = "returned"
  /\ tagged(grid, "wall") # {}
  /\ Len(result.visited) = Cardinality(tagged(grid, "empty")) - 1
  /\ Len(result.visited) >= 3

\* C20: for both searches, if start is not a wall and a wall-free path joins
\* start and end, the result has found = true; and bfs and dfs agree on
\* found for every input.
C20_ReachableIsFound ==
  pc = "returned" =>
    /\ (grid[start] # "wall" /\ trueDistance(grid, start, end) # Unreachable)
         => result.found
    /\ bfs(grid, rows, cols, start, end).found
         = dfs(grid, rows, cols, start, end).found

\* C20 witness: dfs has returned a path longer than the shortest one.
C20_Witness ==
  /\ pc = "returned"
  /\ algorithm = "dfs"
  /\ result.found
  /\ grid[start] # "wall"
  /\ Len(result.path) - 1 > trueDistance(grid, start, end)

----------------------------------------------------------------------------
\* C16: a step of the visited loop changes its target cell only from empty
\* (its type in the displayed grid when the step runs) to visited; if the
\* target is not empty in the displayed grid the step leaves the grid
\* unchanged; and no step of a replay changes a wall cell.
C16_VisitedStepOnlyPaintsEmpty ==
  /\ [][pc = "visited" =>
          LET cell == result.visited[cursor]
          IN /\ grid'[cell] # grid[cell] =>
                  grid[cell] = "empty" /\ grid'[cell] = "visited"
             /\ grid[cell] # "empty" => grid' = grid]_vars
  /\ [][isRunning =>
          \A c \in Cells(rows, cols) : grid[c] = "wall" => grid'[c] = "wall"]_vars

\* C16 witness: the visited loop has run to its end on a grid with a wall,
\* painting one target and skipping another, the end cell.
C16_Witness ==
  /\ pc = "path"
  /\ tagged(grid, "wall") # {}
  /\ \E j \in 1 .. Len(result.visited) : grid[result.visited[j]] = "visited"
  /\ \E j \in 1 .. Len(result.visited) : grid[result.visited[j]] = "end"

----------------------------------------------------------------------------
\* C17: in every reachable state, if the start reference is set the cell at
\* its coordinate has type start, and if the end reference is set the cell
\* at its coordinate has type end.
C17_ReferencesMatchTags ==
  /\ start # NoCell => grid[start] = "start"
  /\ end # NoCell => grid[end] = "end"

\* C18: in every reachable state in which both references are set they
\* designate different coordinates; so no run is in progress with start =
\* end and no completed run reports a found path of 0 steps.
C18_DistinctEndpoints ==
  /\ (start # NoCell /\ end # NoCell) => start # end
  /\ isRunning => start # end
  /\ message.kind = "found" => message.steps > 0

----------------------------------------------------------------------------
\* the interior of result.path: the path without its first and last cell,
\* empty when nothing was found
interior(res) ==
  IF res.found THEN entries(res.path, 2, Len(res.path) - 1) ELSE {}

\* the overlay of grid g is the one result res describes
overlayMatches(g, res) ==
  /\ tagged(g, "path") = interior(res)
  /\ tagged(g, "visited") \subseteq entries(res.visited, 1, Len(res.visited))

\* C19: when a replay completes, whatever edits and runs came before it, the
\* cells of type path are exactly the interior of result.path and every
\* cell of type visited is an entry of result.visited.
C19_FinalOverlayMatchesResult ==
  /\ [][(isRunning /\ ~isRunning') => overlayMatches(grid', result)]_vars
  /\ [][(~isRunning /\ clickVisualize /\ ~isRunning') =>
          overlayMatches(grid',
                         runTraversal(grid, rows, cols, algorithm, start, end))]_vars

====
